---- MODULE Spec2Model ----
(***************************************************************************)
(* Model of backend/legal_qa.py: retrieval (search_laws), the extractive   *)
(* fallback (get_best_match_answer), the prompt builder (_format_sources,  *)
(* _build_prompt_ar), the Ollama call (_generate_with_ollama) and the      *)
(* public entry point rag_answer.                                          *)
(*                                                                         *)
(* Strings are sequences of one-character tokens; a fixed literal of the   *)
(* source (an Arabic message) is one token written "<...>".                *)
(***************************************************************************)
EXTENDS Integers, Sequences, FiniteSets, TLC

\* ---------------------------------------------------------------- bounds
MaxMeta  == 4   \* len(metadata) ranges over 0..MaxMeta
MaxIndex == 4   \* index.ntotal ranges over 0..MaxIndex
MaxK     == 4   \* k_retrieve ranges over 1..MaxK
MaxCtx   == 3   \* max_ctx_chars ranges over 0..MaxCtx
MaxInbox == 1   \* frames the websocket buffers for a handler that has not read them
MaxChunks == 101 \* PCM chunks one connection sends
MaxOutbox == 4  \* messages sent to one client, the two greetings included

\* ------------------------------------------------------ program constants
DefaultTopK      == 5     \* int(os.getenv("TOP_K", "5"))
SourcesMax       == 3     \* ctxs[:3], ctx[:3]
SnippetMax       == 600   \* txt[:600]
MinCompletionLen == 20    \* len(completion) < 20
QueueMax == 100           \* asyncio.Queue(maxsize=100)
SendK == 6                \* rag_answer(text, k_retrieve=6, ...)
SendCtx == 7000           \* rag_answer(text, ..., max_ctx_chars=7000, ...)

VARIABLES
    metadata,       \* the loaded passage records (module global `metadata`)
    indexOrder,     \* the index's nearest-first ranking of its vectors for the query
    TOP_K,          \* module global TOP_K: the default, or 1 set in the environment
    pc,             \* position inside rag_answer
    k_retrieve,     \* argument of the running call
    max_ctx_chars,  \* argument of the running call
    ctxs,           \* local `ctxs`
    kept,           \* local `kept` of _build_prompt_ar
    prompt,         \* local `prompt`
    gen,            \* how the _generate_with_ollama call ended, and its return value
    completion,     \* local `completion`
    result,         \* the returned dict
    outcome,        \* which return statement (or raise) ended the call
    trace,          \* the stage calls made by the running call, in order
    backend_arg,    \* argument `backend` of the running call
    prev,           \* the arguments and the result of the call made before
    outbox,         \* per connection: the messages sent on the websocket, in order
    inbox,          \* per connection: frames the websocket has buffered for the handler
    conn,           \* per connection: "open" or "closed", as the websocket sees it
    hpc,            \* per connection: position of handle_client
    running,        \* per connection: session.running
    last_text,      \* per connection: session.last_text
    query,          \* the text passed to the rag_answer call in progress
    pcm_q,          \* per connection: session.pcm_q, oldest chunk first
    received,       \* per connection: number of PCM chunks handed to handle_binary
    written,        \* per connection: the last chunk written to the push stream
    tpc,            \* per connection: position of session.azure_task
    cancelled,      \* per connection: azure_task.cancel() has been requested
    recognizing,    \* per connection: continuous recognition never/started/stopped
    stream          \* per connection: the push stream none/open/closed

\* the store, the configuration and the frame of rag_answer
ragVars == <<metadata, indexOrder, TOP_K, pc, k_retrieve, max_ctx_chars, ctxs, kept,
             prompt, gen, completion, result, outcome, trace>>

\* what a caller that calls twice holds
pairVars == <<backend_arg, prev>>

\* the websocket of each connection
netVars == <<outbox, inbox, conn>>

\* handle_client and the Session fields it and its handlers use
handlerVars == <<hpc, running, last_text, query>>

\* the audio path of each Session
audioVars == <<pcm_q, received, written>>

\* the recognition task of each Session and the Azure objects it drives
taskVars == <<tpc, cancelled, recognizing, stream>>

\* the per-connection Sessions of app_ws.py
wsVars == <<netVars, handlerVars, audioVars, taskVars>>

\* everything outside rag_answer's own frame
callerVars == <<pairVars, wsVars>>

vars == <<ragVars, callerVars>>

\* ------------------------------------------------------------ string helpers
NoneVal == <<"<None>">>      \* dict.get of an absent key
Whitespace == {" ", "\n"}

Min(a, b) == IF a <= b THEN a ELSE b

\* s[:n]
Take(s, n) == SubSeq(s, 1, Min(n, Len(s)))

RECURSIVE LStripChars(_, _)
LStripChars(s, chars) ==
    IF s # <<>> /\ Head(s) \in chars THEN LStripChars(Tail(s), chars) ELSE s

RECURSIVE RStripChars(_, _)
RStripChars(s, chars) ==
    IF s # <<>> /\ s[Len(s)] \in chars
    THEN RStripChars(SubSeq(s, 1, Len(s) - 1), chars)
    ELSE s

\* str.strip(chars)
StripChars(s, chars) == RStripChars(LStripChars(s, chars), chars)

\* str.strip()
Strip(s) == StripChars(s, Whitespace)

\* (x or "")
OrEmpty(v) == IF v = NoneVal THEN <<>> ELSE v

\* truthiness of an optional string
Truthy(v) == v # NoneVal /\ v # <<>>

RECURSIVE Join(_, _)
\* sep.join(parts)
Join(parts, sep) ==
    IF parts = <<>> THEN <<>>
    ELSE IF Len(parts) = 1 THEN parts[1]
    ELSE parts[1] \o sep \o Join(Tail(parts), sep)

Digit(i) == <<"0", "1", "2", "3", "4", "5", "6", "7", "8", "9">>[(i % 10) + 1]

RECURSIVE Repeat(_, _)
Repeat(c, n) == IF n <= 0 THEN <<>> ELSE <<c>> \o Repeat(c, n - 1)

\* ------------------------------------------------------------ passage store
\* The record at position i of the metadata file: four shapes, covering a
\* missing article title, a missing law title, whitespace-only and empty text.
PassageAt(i) ==
    [law_title     |-> CASE i % 4 = 2 -> NoneVal
                         [] i % 4 = 3 -> <<>>
                         [] OTHER     -> <<"L", Digit(i)>>,
     article_title |-> CASE i % 4 = 1 -> NoneVal
                         [] i % 4 = 3 -> <<>>
                         [] OTHER     -> <<"A", Digit(i)>>,
     text          |-> CASE i % 4 = 0 -> <<"a">>
                         [] i % 4 = 1 -> <<" ">>
                         [] i % 4 = 2 -> <<" ", "c">>
                         [] OTHER     -> <<>>,
     url           |-> CASE i % 4 = 1 -> NoneVal
                         [] i % 4 = 2 -> <<>>
                         [] OTHER     -> <<"u", Digit(i)>>]

\* json.load(f): the n records of the metadata file
LoadMetadata(n) == [j \in 1..n |-> PassageAt(j - 1)]

\* the rankings a similarity index over n vectors can give a query
Rankings(n) ==
    {s \in [1..n -> 0..(n - 1)] : \A a, b \in 1..n : a # b => s[a] # s[b]}

\* index.search(emb, top_k)[1][0]: the top_k nearest positions, nearest
\* first, padded with -1 when the index holds fewer than top_k vectors
IndexSearch(top_k) ==
    [j \in 1..top_k |-> IF j <= Len(indexOrder) THEN indexOrder[j] ELSE -1]

RECURSIVE Lookup_NoLowerBound(_)
\* Lookup with the test `i < len(metadata)` alone: a negative position
\* indexes from the end of the list
Lookup_NoLowerBound(idxs) ==
    IF idxs = <<>> THEN <<>>
    ELSE (IF Head(idxs) < Len(metadata) /\ Len(metadata) + Head(idxs) >= 0
          THEN <<metadata[IF Head(idxs) >= 0 THEN Head(idxs) + 1
                          ELSE Len(metadata) + Head(idxs) + 1]>>
          ELSE <<>>) \o Lookup_NoLowerBound(Tail(idxs))

RECURSIVE Lookup(_)
\* [metadata[i] for i in idxs if 0 <= i < len(metadata)]
Lookup(idxs) ==
    IF idxs = <<>> THEN <<>>
    ELSE (IF 0 <= Head(idxs) /\ Head(idxs) < Len(metadata)
          THEN <<metadata[Head(idxs) + 1]>>
          ELSE <<>>) \o Lookup(Tail(idxs))

search_laws(top_k) == Lookup(IndexSearch(top_k))

\* -------------------------------------------------------- fixed literals
NoInfoMsg       == <<"<la-tujad-malumat>">>
UntitledLaw     == <<"<untitled-law>">>
InsufficientMsg == <<"<insufficient-information>">>
FailPrefix      == <<"<apology-no-grounded-answer>", "\n", "\n">>
ShortPrefix     == <<"<apology-incomplete-answer>", "\n", "\n">>
UrlLabel        == <<"<link>", " ">>
Ellipsis        == <<"<ellipsis>">>
SYSTEM_AR       == <<"<system-instruction>">>
Directive       == <<"<closing-directive>">>
Question        == <<"q">>
BackendTag      == "llama"

\* ---------------------------------------------------- extractive fallback
\* one rendered block of get_best_match_answer, <<>> when the passage is skipped
RenderPart(item) ==
    LET law_title == IF item.law_title = NoneVal THEN UntitledLaw ELSE item.law_title
        art_title == item.article_title
        text      == Strip(OrEmpty(item.text))
    IN  IF text = <<>> THEN <<>>
        ELSE IF Truthy(art_title)
             THEN <<art_title \o <<" ", "(">> \o law_title \o <<")", ":", "\n">> \o text>>
             ELSE <<<<"(">> \o law_title \o <<")", ":", "\n">> \o text>>

RECURSIVE RenderParts(_)
RenderParts(items) ==
    IF items = <<>> THEN <<>>
    ELSE RenderPart(Head(items)) \o RenderParts(Tail(items))

\* get_best_match_answer taking the first three passages that have text
get_best_match_answer_ThreeWithText ==
    LET ctx   == search_laws(TOP_K)
        parts == Take(RenderParts(ctx), SourcesMax)
    IN  IF ctx = <<>> THEN NoInfoMsg
        ELSE IF parts # <<>> THEN Join(parts, <<"\n", "\n">>) ELSE NoInfoMsg

get_best_match_answer ==
    LET ctx   == search_laws(TOP_K)
        parts == RenderParts(Take(ctx, SourcesMax))
    IN  IF ctx = <<>> THEN NoInfoMsg
        ELSE IF parts # <<>> THEN Join(parts, <<"\n", "\n">>) ELSE NoInfoMsg

\* ------------------------------------------------------------- prompting
\* one citation line of _format_sources, numbered i
FormatLine(i, item) ==
    LET law     == IF Truthy(item.law_title) THEN item.law_title ELSE UntitledLaw
        art     == OrEmpty(item.article_title)
        txt     == Strip(OrEmpty(item.text))
        url     == OrEmpty(item.url)
        snippet == IF Len(txt) <= SnippetMax THEN txt
                   ELSE SubSeq(txt, 1, SnippetMax) \o Ellipsis
        title   == StripChars(IF art # <<>> THEN art \o <<" ", "-", " ">> \o law ELSE law,
                              {" ", "-"})
    IN  [num |-> i, title |-> title, snippet |-> snippet,
         link |-> IF url # <<>> THEN UrlLabel \o url ELSE <<>>]

\* _format_sources(contexts) = (lines, cleaned)
_format_sources(contexts) ==
    <<[i \in 1..Len(contexts) |-> FormatLine(i, contexts[i])], contexts>>

RECURSIVE KeepLoop(_, _, _, _)
\* the for loop of _build_prompt_ar from position j on
KeepLoop(contexts, j, total, keptSoFar) ==
    IF j > Len(contexts) THEN keptSoFar
    ELSE LET t == OrEmpty(contexts[j].text)
         IN  IF total + Len(t) > max_ctx_chars /\ keptSoFar # <<>> THEN keptSoFar
             ELSE KeepLoop(contexts, j + 1, total + Len(t),
                           Append(keptSoFar, contexts[j]))

RECURSIVE KeepLoop_NoFirst(_, _, _, _)
\* KeepLoop with the test `total + len(t) > max_ctx_chars` alone
KeepLoop_NoFirst(contexts, j, total, keptSoFar) ==
    IF j > Len(contexts) THEN keptSoFar
    ELSE LET t == OrEmpty(contexts[j].text)
         IN  IF total + Len(t) > max_ctx_chars THEN keptSoFar
             ELSE KeepLoop_NoFirst(contexts, j + 1, total + Len(t),
                                   Append(keptSoFar, contexts[j]))

Kept_NoFirst(contexts) == KeepLoop_NoFirst(contexts, 1, 0, <<>>)

\* the list `kept` when the loop of _build_prompt_ar ends
Kept(contexts) == KeepLoop(contexts, 1, 0, <<>>)

\* the returned prompt: system block, question block, citation block, directive
_build_prompt_ar(keptList) ==
    [system    |-> SYSTEM_AR,
     question  |-> Question,
     refs      |-> _format_sources(keptList)[1],
     directive |-> Directive]

\* ------------------------------------------------------------- generation
\* the "response" field of the reply body: lead blanks, n letters, trail blanks
Body(lead, n, trail) == Repeat(" ", lead) \o Repeat("x", n) \o Repeat(" ", trail)

\* reply bodies: no field, blank, short, just below and at the length threshold
Responses ==
    {NoneVal, Body(0, 0, 0), Body(1, 0, 1), Body(0, 2, 0),
     Body(0, MinCompletionLen - 1, 0), Body(1, MinCompletionLen - 1, 0),
     Body(0, MinCompletionLen, 0), Body(1, MinCompletionLen, 1)}

NoGen == [status |-> "none", text |-> <<>>]

\* _generate_with_ollama returning the text of the reply unstripped
_generate_with_ollama_NoStrip(http, response) ==
    IF http # "ok" THEN [status |-> "raised", text |-> <<>>]
    ELSE IF Strip(OrEmpty(response)) = <<>> THEN [status |-> "raised", text |-> <<>>]
         ELSE [status |-> "returned", text |-> OrEmpty(response)]

\* _generate_with_ollama: returns the stripped text, or raises RuntimeError
\* (connection error, HTTP error status, blank text)
_generate_with_ollama(http, response) ==
    IF http # "ok" THEN [status |-> "raised", text |-> <<>>]
    ELSE LET text == Strip(OrEmpty(response))
         IN  IF text = <<>> THEN [status |-> "raised", text |-> <<>>]
             ELSE [status |-> "returned", text |-> text]

\* ------------------------------------------------------------- rag_answer
NoResult == [answer |-> <<>>, sources |-> <<>>, backend |-> "none", retrieved |-> -1]
NoPrompt == [system |-> <<>>, question |-> <<>>, refs |-> <<>>, directive |-> <<>>]

\* the dict returned when retrieval is empty
EmptyResult ==
    [answer |-> InsufficientMsg, sources |-> <<>>, backend |-> BackendTag,
     retrieved |-> 0]

\* the except branch returning every retrieved passage as sources
FailureResult_NoSlice ==
    [answer    |-> FailPrefix \o get_best_match_answer,
     sources   |-> ctxs,
     backend   |-> BackendTag,
     retrieved |-> Len(ctxs)]

\* the except branch filling a list that outlives the call
FailureResult_SharedList ==
    [answer    |-> FailPrefix \o get_best_match_answer,
     sources   |-> (IF prev.called THEN prev.result.sources ELSE <<>>)
                   \o Take(ctxs, SourcesMax),
     backend   |-> BackendTag,
     retrieved |-> Len(ctxs)]

\* the except branch tagging the result with the backend it was asked for
FailureResult_TagsArgument ==
    [answer    |-> FailPrefix \o get_best_match_answer,
     sources   |-> Take(ctxs, SourcesMax),
     backend   |-> IF backend_arg = "None" THEN BackendTag ELSE backend_arg,
     retrieved |-> Len(ctxs)]

\* the dict returned by the except branch
FailureResult ==
    [answer    |-> FailPrefix \o get_best_match_answer,
     sources   |-> Take(ctxs, SourcesMax),
     backend   |-> BackendTag,
     retrieved |-> Len(ctxs)]

\* `not completion or len(completion) < 20`
Degenerate(c) == c = <<>> \/ Len(c) < MinCompletionLen

\* the final return with the test `not completion` alone
FinalResult_NoLengthCheck ==
    [answer    |-> IF completion = <<>>
                   THEN ShortPrefix \o get_best_match_answer
                   ELSE completion,
     sources   |-> Take(ctxs, SourcesMax),
     backend   |-> BackendTag,
     retrieved |-> Len(ctxs)]

\* the dict returned at the end of rag_answer
FinalResult ==
    [answer    |-> IF Degenerate(completion)
                   THEN ShortPrefix \o get_best_match_answer
                   ELSE completion,
     sources   |-> Take(ctxs, SourcesMax),
     backend   |-> BackendTag,
     retrieved |-> Len(ctxs)]

\* ------------------------------------------------------ app_ws.py sessions
\* the connections the server holds at once
Conns == {1, 2}

\* every Session just constructed, nothing received yet
SessionsNew ==
    /\ outbox = [c \in Conns |-> <<>>]
    /\ inbox = [c \in Conns |-> <<>>]
    /\ conn = [c \in Conns |-> "open"]
    /\ hpc = [c \in Conns |-> "new"]
    /\ running = [c \in Conns |-> TRUE]
    /\ last_text = [c \in Conns |-> NoneVal]
    /\ query = NoneVal
    /\ pcm_q = [c \in Conns |-> <<>>]
    /\ received = [c \in Conns |-> 0]
    /\ written = [c \in Conns |-> 0]
    /\ tpc = [c \in Conns |-> "none"]
    /\ cancelled = [c \in Conns |-> FALSE]
    /\ recognizing = [c \in Conns |-> "never"]
    /\ stream = [c \in Conns |-> "none"]

NoPrev == [called |-> FALSE]

\* a caller that has made no call yet and passes no backend argument
\* the default of the parameter `backend: str = None`
NoBackend == "None"

CallerIdle ==
    /\ backend_arg = NoBackend
    /\ prev = NoPrev
    /\ SessionsNew

\* the state outside any call
Idle ==
    /\ pc = "idle"
    /\ k_retrieve = 0
    /\ max_ctx_chars = 0
    /\ ctxs = <<>>
    /\ kept = <<>>
    /\ prompt = NoPrompt
    /\ gen = NoGen
    /\ completion = <<>>
    /\ result = NoResult
    /\ outcome = "none"
    /\ trace = <<>>

Init ==
    /\ \E n \in 0..MaxMeta : metadata = LoadMetadata(n)
    /\ \E n \in 0..MaxIndex : indexOrder \in Rankings(n)
    /\ TOP_K \in {1, DefaultTopK}
    /\ Idle
    /\ CallerIdle

\* a caller invokes rag_answer(question, k_retrieve=k, max_ctx_chars=m)
Call(k, m) ==
    /\ pc = "idle"
    /\ pc' = "retrieve"
    /\ k_retrieve' = k
    /\ max_ctx_chars' = m
    /\ UNCHANGED <<metadata, indexOrder, TOP_K, ctxs, kept, prompt, gen, completion,
                   result, outcome, trace>>

\* Retrieve without the `if not ctxs` return
Retrieve_NoEmptyCheck(embedOk) ==
    /\ pc = "retrieve"
    /\ trace' = Append(trace, "retrieve")
    /\ IF ~embedOk
       THEN /\ pc' = "raised"
            /\ outcome' = "RAISED"
            /\ UNCHANGED ctxs
       ELSE /\ ctxs' = search_laws(k_retrieve)
            /\ pc' = "build"
            /\ UNCHANGED outcome
    /\ UNCHANGED <<metadata, indexOrder, TOP_K, k_retrieve, max_ctx_chars, kept,
                   prompt, gen, completion, result>>

\* ctxs = search_laws(question, top_k=k_retrieve), and the empty-retrieval
\* return; model.encode / index.search either work for this query or raise
Retrieve(embedOk) ==
    /\ pc = "retrieve"
    /\ trace' = Append(trace, "retrieve")
    /\ IF ~embedOk
       THEN /\ pc' = "raised"
            /\ outcome' = "RAISED"
            /\ UNCHANGED <<ctxs, result>>
       ELSE /\ ctxs' = search_laws(k_retrieve)
            /\ IF ctxs' = <<>>
               THEN /\ result' = EmptyResult
                    /\ pc' = "done"
                    /\ outcome' = "EMPTY_ANSWER"
               ELSE /\ pc' = "build"
                    /\ UNCHANGED <<result, outcome>>
    /\ UNCHANGED <<metadata, indexOrder, TOP_K, k_retrieve, max_ctx_chars, kept,
                   prompt, gen, completion>>

\* Build with _format_sources writing the stripped text back into each item,
\* which is the very dict held by `metadata`
Build_StripsInPlace ==
    /\ pc = "build"
    /\ kept' = Kept(ctxs)
    /\ prompt' = _build_prompt_ar(kept')
    /\ metadata' = [j \in 1..Len(metadata) |->
                       IF \E i \in 1..Len(kept') : kept'[i] = metadata[j]
                       THEN [metadata[j] EXCEPT !.text = Strip(OrEmpty(@))]
                       ELSE metadata[j]]
    /\ trace' = Append(trace, "build")
    /\ pc' = "generate"
    /\ UNCHANGED <<indexOrder, TOP_K, k_retrieve, max_ctx_chars, ctxs,
                   gen, completion, result, outcome>>

\* prompt = _build_prompt_ar(question, ctxs, max_ctx_chars)
Build ==
    /\ pc = "build"
    /\ kept' = Kept(ctxs)
    /\ prompt' = _build_prompt_ar(kept')
    /\ trace' = Append(trace, "build")
    /\ pc' = "generate"
    /\ UNCHANGED <<metadata, indexOrder, TOP_K, k_retrieve, max_ctx_chars, ctxs,
                   gen, completion, result, outcome>>

\* completion = _generate_with_ollama(prompt).strip(), or the jump to except
Generate(http, response) ==
    /\ pc = "generate"
    /\ trace' = Append(trace, "generate")
    /\ gen' = _generate_with_ollama(http, response)
    /\ IF gen'.status = "raised"
       THEN /\ pc' = "except"
            /\ UNCHANGED completion
       ELSE /\ pc' = "check"
            /\ completion' = Strip(gen'.text)
    /\ UNCHANGED <<metadata, indexOrder, TOP_K, k_retrieve, max_ctx_chars, ctxs,
                   kept, prompt, result, outcome>>

\* an except branch that calls the backend a second time before giving up
HandleFailure_Retry ==
    /\ pc = "except"
    /\ IF Len(trace) <= 3
       THEN /\ pc' = "generate"
            /\ trace' = Append(trace, "retry")
            /\ UNCHANGED <<result, outcome>>
       ELSE /\ pc' = "done"
            /\ trace' = Append(trace, "retrieve")
            /\ result' = FailureResult
            /\ outcome' = "DEGRADED_ANSWER"
    /\ UNCHANGED <<metadata, indexOrder, TOP_K, k_retrieve, max_ctx_chars, ctxs,
                   kept, prompt, gen, completion>>

\* the except branch of rag_answer; get_best_match_answer searches again.
\* The embedder and the index are deterministic for one query: the search
\* that worked at line 137 works again here and returns the same ranking.
HandleFailure ==
    /\ pc = "except"
    /\ trace' = Append(trace, "retrieve")
    /\ result' = FailureResult
    /\ pc' = "done"
    /\ outcome' = "DEGRADED_ANSWER"
    /\ UNCHANGED <<metadata, indexOrder, TOP_K, k_retrieve, max_ctx_chars, ctxs,
                   kept, prompt, gen, completion>>

\* the length check and the final return of rag_answer
CheckCompletion ==
    /\ pc = "check"
    /\ result' = FinalResult
    /\ outcome' = IF Degenerate(completion) THEN "DEGRADED_ANSWER" ELSE "GENERATED"
    /\ trace' = IF Degenerate(completion) THEN Append(trace, "retrieve") ELSE trace
    /\ pc' = "done"
    /\ UNCHANGED <<metadata, indexOrder, TOP_K, k_retrieve, max_ctx_chars, ctxs,
                   kept, prompt, gen, completion>>

\* the call is over and its frame is gone; the next query may arrive
Return ==
    /\ pc \in {"done", "raised"}
    /\ pc' = "idle"
    /\ k_retrieve' = 0
    /\ max_ctx_chars' = 0
    /\ ctxs' = <<>>
    /\ kept' = <<>>
    /\ prompt' = NoPrompt
    /\ gen' = NoGen
    /\ completion' = <<>>
    /\ result' = NoResult
    /\ outcome' = "none"
    /\ trace' = <<>>
    /\ UNCHANGED <<metadata, indexOrder, TOP_K>>

\* rag_answer called with the default backend argument, call after call
Next ==
    \/ \E k \in 1..MaxK, m \in 0..MaxCtx : Call(k, m) /\ UNCHANGED callerVars
    \/ \E embedOk \in BOOLEAN : Retrieve(embedOk) /\ UNCHANGED callerVars
    \/ Build /\ UNCHANGED callerVars
    \/ \E http \in {"connection_error", "http_error"} :
           Generate(http, NoneVal) /\ UNCHANGED callerVars
    \/ \E response \in Responses : Generate("ok", response) /\ UNCHANGED callerVars
    \/ HandleFailure /\ UNCHANGED callerVars
    \/ CheckCompletion /\ UNCHANGED callerVars
    \/ Return /\ UNCHANGED callerVars

Spec == Init /\ [][Next]_vars

\* ------------------------------------------- the prompt builder on its own
\* _build_prompt_ar is applied to any passage sequence and any budget
PromptInit ==
    /\ metadata = LoadMetadata(MaxMeta)
    /\ indexOrder = <<>>
    /\ TOP_K = DefaultTopK
    /\ pc = "build"
    /\ k_retrieve = 0
    /\ max_ctx_chars \in (-1)..MaxCtx
    /\ \E n \in 0..MaxMeta : ctxs \in [1..n -> {metadata[j] : j \in 1..MaxMeta}]
    /\ kept = <<>>
    /\ prompt = NoPrompt
    /\ gen = NoGen
    /\ completion = <<>>
    /\ result = NoResult
    /\ outcome = "none"
    /\ trace = <<>>
    /\ CallerIdle

PromptNext == Build /\ UNCHANGED callerVars

PromptSpec == PromptInit /\ [][PromptNext]_vars

\* ------------------------------------------------- one caller, two calls
\* the values a caller passes as `backend`: the default, or a name such as
\* os.getenv("RAG_BACKEND", "llama")
BackendArgs == {NoBackend, "llama", "hf"}

\* the index ranks its n vectors in stored order, or in the reverse order
StoredOrder(n) == [j \in 1..n |-> j - 1]
ReverseOrder(n) == [j \in 1..n |-> n - j]

PairInit ==
    /\ \E n \in 0..MaxMeta : metadata = LoadMetadata(n)
    /\ \E n \in 0..MaxIndex : indexOrder \in {StoredOrder(n), ReverseOrder(n)}
    /\ TOP_K \in {1, DefaultTopK}
    /\ Idle
    /\ CallerIdle

\* the first call, with the default backend argument
FirstCall(k, m) ==
    /\ ~prev.called
    /\ Call(k, m)
    /\ UNCHANGED callerVars

\* the call is over; the caller keeps what it passed and what it got
KeepResult ==
    /\ ~prev.called
    /\ prev' = [called |-> TRUE, k |-> k_retrieve, m |-> max_ctx_chars,
                backend |-> backend_arg, ended |-> pc, gen |-> gen,
                result |-> result, outcome |-> outcome]
    /\ Return
    /\ UNCHANGED <<backend_arg, wsVars>>

\* the second call: same question, k_retrieve and max_ctx_chars, any backend
SecondCall(b) ==
    /\ prev.called
    /\ Call(prev.k, prev.m)
    /\ backend_arg' = b
    /\ UNCHANGED <<prev, wsVars>>

PairNext ==
    \/ \E k \in 1..MaxK, m \in 0..MaxCtx : FirstCall(k, m)
    \/ KeepResult
    \/ \E b \in BackendArgs : SecondCall(b)
    \/ \E embedOk \in BOOLEAN : Retrieve(embedOk) /\ UNCHANGED callerVars
    \/ Build /\ UNCHANGED callerVars
    \/ \E http \in {"connection_error", "http_error"} :
           Generate(http, NoneVal) /\ UNCHANGED callerVars
    \/ \E response \in Responses : Generate("ok", response) /\ UNCHANGED callerVars
    \/ HandleFailure /\ UNCHANGED callerVars
    \/ CheckCompletion /\ UNCHANGED callerVars

PairSpec == PairInit /\ [][PairNext]_vars

\* ------------------------------------------ handle_client and the audio path
Upd(f, c, v) == [f EXCEPT ![c] = v]

\* a frame from the client: binary PCM, or a JSON control message
Msg(type, text) == [type |-> type, text |-> text]
BinaryMsg == Msg("binary", NoneVal)
EndMsg    == Msg("end_session", NoneVal)
PingMsg   == Msg("ping", NoneVal)
AskMsg(text) == Msg("ask_answer", text)

Greeting      == <<"<adalah>", " ", "<welcome>">>
Transcript(text) == <<"<speaker>", " ">> \o text
ConnectedText == <<"<connected-waiting-for-audio>">>

\* chunks buffered on the websocket, not yet handed to handle_binary
PendingChunks(c) == Cardinality({i \in 1..Len(inbox[c]) : inbox[c][i].type = "binary"})

\* The event loop runs one coroutine at a time, up to its next suspension:
\* a handler inside the synchronous rag_answer call, or a feeder that still
\* finds chunks in its queue, holds the loop.
LoopFree == \A c \in Conns : hpc[c] # "asking" /\ tpc[c] # "draining"

\* the websocket reads one frame of connection c from the network
receive(c, m) ==
    /\ LoopFree
    /\ conn[c] = "open"
    /\ Len(inbox[c]) < MaxInbox
    /\ m.type = "binary" => received[c] + PendingChunks(c) < MaxChunks
    /\ m.type \in {"ping", "ask_answer"} => Len(outbox[c]) + Len(inbox[c]) < MaxOutbox
    /\ inbox' = Upd(inbox, c, Append(inbox[c], m))
    /\ UNCHANGED <<outbox, conn, handlerVars, audioVars, taskVars>>

\* the websocket sees the client go away
disconnect(c) ==
    /\ LoopFree
    /\ conn[c] = "open"
    /\ conn' = Upd(conn, c, "closed")
    /\ UNCHANGED <<outbox, inbox, handlerVars, audioVars, taskVars>>

\* handle_client up to its receive loop: the greeting (a failed send is
\* swallowed), then start_azure, which creates the push stream and the task
start_azure(c) ==
    /\ LoopFree
    /\ hpc[c] = "new"
    /\ outbox' = Upd(outbox, c, IF conn[c] = "open"
                                THEN outbox[c] \o <<Greeting, Transcript(ConnectedText)>>
                                ELSE outbox[c])
    /\ stream' = Upd(stream, c, "open")
    /\ tpc' = Upd(tpc, c, "created")
    /\ hpc' = Upd(hpc, c, "serving")
    /\ UNCHANGED <<inbox, conn, running, last_text, query, audioVars, cancelled,
                   recognizing>>

\* first step of the task: run() starts recognition and enters feeder(),
\* which suspends in pcm_q.get() on the still empty queue
run(c) ==
    /\ LoopFree
    /\ tpc[c] = "created"
    /\ recognizing' = Upd(recognizing, c, "started")
    /\ tpc' = Upd(tpc, c, "waiting")
    /\ UNCHANGED <<netVars, handlerVars, audioVars, cancelled, stream>>

\* The handler of c can take its next frame. The loop runs ready coroutines
\* in the order they were scheduled, so the task created by start_azure
\* takes its first step before the handler returns from its first wait.
Ready(c) ==
    /\ LoopFree
    /\ hpc[c] = "serving"
    /\ tpc[c] # "created"

\* put that keeps the queue as it is when it is full
Enqueue_DropsNewest(q, data) ==
    IF Len(q) < QueueMax THEN Append(q, data) ELSE q

\* put_nowait; on QueueFull get_nowait discards the oldest, then put
Enqueue(q, data) ==
    IF Len(q) < QueueMax THEN Append(q, data) ELSE Append(Tail(q), data)

\* handle_binary on the next frame; chunks are numbered as they are handled
handle_binary(c) ==
    /\ Ready(c)
    /\ inbox[c] # <<>>
    /\ Head(inbox[c]).type = "binary"
    /\ inbox' = Upd(inbox, c, Tail(inbox[c]))
    /\ received' = Upd(received, c, received[c] + 1)
    /\ pcm_q' = Upd(pcm_q, c, Enqueue(pcm_q[c], received[c] + 1))
    /\ UNCHANGED <<outbox, conn, handlerVars, written, taskVars>>

\* handle_text on {"type": "end_session"}: ws.close
end_session(c) ==
    /\ Ready(c)
    /\ inbox[c] # <<>>
    /\ Head(inbox[c]).type = "end_session"
    /\ inbox' = Upd(inbox, c, Tail(inbox[c]))
    /\ conn' = Upd(conn, c, "closed")
    /\ UNCHANGED <<outbox, handlerVars, audioVars, taskVars>>

\* a finally clause that leaves the task alone
Finally_NoCancel(c) ==
    /\ hpc' = Upd(hpc, c, "ended")
    /\ running' = Upd(running, c, FALSE)
    /\ cancelled' = cancelled

\* the finally clause of handle_client
Finally(c) ==
    /\ hpc' = Upd(hpc, c, "ended")
    /\ running' = Upd(running, c, FALSE)
    /\ cancelled' = Upd(cancelled, c, tpc[c] # "done")

\* the receive loop ends: nothing is buffered and the connection is closed
cleanup(c) ==
    /\ Ready(c)
    /\ inbox[c] = <<>>
    /\ conn[c] = "closed"
    /\ Finally(c)
    /\ UNCHANGED <<netVars, last_text, query, audioVars, tpc, recognizing, stream>>

\* the finally clause of run(): stop recognition, close the push stream
RunFinally(c) ==
    /\ recognizing' = Upd(recognizing, c, "stopped")
    /\ stream' = Upd(stream, c, "closed")
    /\ tpc' = Upd(tpc, c, "done")

\* one iteration of feeder: get a chunk and write it; a write that raises
\* ends the loop, and so does running = False at the next loop test
feeder(c, ok) ==
    /\ tpc[c] \in {"waiting", "draining"}
    /\ tpc[c] = "waiting" => LoopFree
    /\ ~cancelled[c]
    /\ pcm_q[c] # <<>>
    /\ pcm_q' = Upd(pcm_q, c, Tail(pcm_q[c]))
    /\ written' = (IF ok THEN Upd(written, c, Head(pcm_q[c])) ELSE written)
    /\ IF ok /\ running[c]
       THEN /\ tpc' = Upd(tpc, c, IF Tail(pcm_q[c]) = <<>> THEN "waiting" ELSE "draining")
            /\ UNCHANGED <<recognizing, stream>>
       ELSE RunFinally(c)
    /\ UNCHANGED <<netVars, handlerVars, received, cancelled>>

\* the cancelled task resumes: CancelledError is raised at pcm_q.get()
run_cancelled(c) ==
    /\ LoopFree
    /\ tpc[c] = "waiting"
    /\ cancelled[c]
    /\ RunFinally(c)
    /\ UNCHANGED <<netVars, handlerVars, audioVars, cancelled>>

\* one connection streaming audio until it ends
ConnInit ==
    /\ metadata = LoadMetadata(MaxMeta)
    /\ indexOrder = StoredOrder(MaxIndex)
    /\ TOP_K = DefaultTopK
    /\ Idle
    /\ CallerIdle

HandlerStep(c) ==
    \/ start_azure(c)
    \/ handle_binary(c)
    \/ end_session(c)
    \/ cleanup(c)

TaskStep(c) ==
    \/ run(c)
    \/ \E ok \in BOOLEAN : feeder(c, ok)
    \/ run_cancelled(c)

ConnNext ==
    \/ \E m \in {BinaryMsg, EndMsg} : receive(1, m) /\ UNCHANGED <<ragVars, pairVars>>
    \/ disconnect(1) /\ UNCHANGED <<ragVars, pairVars>>
    \/ start_azure(1) /\ UNCHANGED <<ragVars, pairVars>>
    \/ handle_binary(1) /\ UNCHANGED <<ragVars, pairVars>>
    \/ end_session(1) /\ UNCHANGED <<ragVars, pairVars>>
    \/ cleanup(1) /\ UNCHANGED <<ragVars, pairVars>>
    \/ run(1) /\ UNCHANGED <<ragVars, pairVars>>
    \/ \E ok \in BOOLEAN : feeder(1, ok) /\ UNCHANGED <<ragVars, pairVars>>
    \/ run_cancelled(1) /\ UNCHANGED <<ragVars, pairVars>>

ConnSpec == ConnInit /\ [][ConnNext]_vars

\* the event loop eventually runs every coroutine that is ready
FairConnSpec ==
    /\ ConnSpec
    /\ WF_vars(HandlerStep(1) /\ UNCHANGED <<ragVars, pairVars>>)
    /\ WF_vars(TaskStep(1) /\ UNCHANGED <<ragVars, pairVars>>)

\* ------------------------------------------------- Session.send_answer
AnswerLabel  == <<"<adalah>", " ">>
NoAnswerMsg  == AnswerLabel \o <<"<no-answer>">>
ApologyMsg   == AnswerLabel \o <<"<cannot-generate-grounded-answer>">>
RefsHeader   == <<"\n", "\n", "<references>", "\n">>
\* str(e) of the exception rag_answer raised
ExceptionText == <<"<exception-text>">>

\* one line of the references tail, numbered i
TailLine(i, src) ==
    LET law  == IF Truthy(src.law_title) THEN src.law_title ELSE UntitledLaw
        art  == OrEmpty(src.article_title)
        url  == OrEmpty(src.url)
        name == StripChars(IF art # <<>> THEN art \o <<" ", "-", " ">> \o law ELSE law,
                           {" ", "-"})
    IN  <<"[", Digit(i), "]", " ">> \o name
        \o (IF url # <<>> THEN <<"\n">> \o url ELSE <<>>)

\* send_answer's payload that puts the exception's text after the label
AnswerPayload_LeaksError(raised, out) ==
    IF raised THEN AnswerLabel \o ExceptionText
    ELSE LET answer  == Strip(OrEmpty(out.answer))
             sources == out.sources
             lines   == [i \in 1..Len(sources) |-> TailLine(i, sources[i])]
             tail    == IF lines # <<>> THEN RefsHeader \o Join(lines, <<"\n">>) ELSE <<>>
         IN  IF answer # <<>> THEN AnswerLabel \o answer \o tail ELSE NoAnswerMsg

\* the payload send_answer builds from what rag_answer returned or raised
\* (a missing or None sources entry reads as the empty list)
AnswerPayload(raised, out) ==
    IF raised THEN ApologyMsg
    ELSE LET answer  == Strip(OrEmpty(out.answer))
             sources == out.sources
             lines   == [i \in 1..Len(sources) |-> TailLine(i, sources[i])]
             tail    == IF lines # <<>> THEN RefsHeader \o Join(lines, <<"\n">>) ELSE <<>>
         IN  IF answer # <<>> THEN AnswerLabel \o answer \o tail ELSE NoAnswerMsg

\* send_answer once rag_answer has returned or raised: build the payload and
\* await self.ws.send(payload); on a closed connection the send raises
\* ConnectionClosed, which ends handle_client through its finally clause
send_answer(c) ==
    /\ pc \in {"done", "raised"}
    /\ pc' = "sent"
    /\ IF conn[c] = "open"
       THEN /\ outbox' = Upd(outbox, c, Append(outbox[c], AnswerPayload(pc = "raised", result)))
            /\ hpc' = Upd(hpc, c, "serving")
            /\ UNCHANGED <<running, cancelled>>
       ELSE /\ Finally(c)
            /\ UNCHANGED outbox
    /\ UNCHANGED <<inbox, conn, last_text, query, audioVars, tpc, recognizing, stream>>
    /\ UNCHANGED <<metadata, indexOrder, TOP_K, k_retrieve, max_ctx_chars, ctxs, kept,
                   prompt, gen, completion, result, outcome, trace, pairVars>>

\* the answers a rag_answer (or the stub installed when its import fails)
\* can hand to send_answer: missing, blank, padded, plain
OutAnswers ==
    {NoneVal, <<>>, <<" ">>, <<" ", "x", " ">>, <<"x", "y">>, FailPrefix \o NoInfoMsg}

\* send_answer, for connection 1, on any returned dict and on a raised
\* exception, with the connection still open or already closed
AnswerInit ==
    /\ metadata = LoadMetadata(MaxMeta)
    /\ indexOrder = <<>>
    /\ TOP_K = DefaultTopK
    /\ pc \in {"done", "raised"}
    /\ outcome = (IF pc = "raised" THEN "RAISED" ELSE "none")
    /\ IF pc = "raised"
       THEN result = NoResult
       ELSE \E n \in 0..SourcesMax :
                result \in [answer    : OutAnswers,
                            sources   : [1..n -> {metadata[j] : j \in 1..MaxMeta}],
                            backend   : {BackendTag},
                            retrieved : {n}]
    /\ k_retrieve = 0
    /\ max_ctx_chars = 0
    /\ ctxs = <<>>
    /\ kept = <<>>
    /\ prompt = NoPrompt
    /\ gen = NoGen
    /\ completion = <<>>
    /\ trace = <<>>
    /\ backend_arg = NoBackend
    /\ prev = NoPrev
    /\ outbox = [c \in Conns |-> <<>>]
    /\ inbox = [c \in Conns |-> <<>>]
    /\ conn \in [Conns -> {"open", "closed"}]
    /\ hpc = [c \in Conns |-> IF c = 1 THEN "asking" ELSE "serving"]
    /\ running = [c \in Conns |-> TRUE]
    /\ last_text = [c \in Conns |-> NoneVal]
    /\ query = <<"q">>
    /\ pcm_q = [c \in Conns |-> <<>>]
    /\ received = [c \in Conns |-> 0]
    /\ written = [c \in Conns |-> 0]
    /\ tpc = [c \in Conns |-> "waiting"]
    /\ cancelled = [c \in Conns |-> FALSE]
    /\ recognizing = [c \in Conns |-> "started"]
    /\ stream = [c \in Conns |-> "open"]

AnswerNext == send_answer(1)

AnswerSpec == AnswerInit /\ [][AnswerNext]_vars

\* ------------------------------------------------- the server's event loop
Pong == <<"<pong>">>
NoRecentTextMsg == AnswerLabel \o <<"<no-recent-text>">>

\* msg.get("text") of an ask_answer message: missing, empty, blank, padded
AskTexts == {NoneVal, <<>>, <<" ">>, <<" ", "q", " ">>}

\* evt.result.text of a recognized event
HeardTexts == {NoneVal, <<" ">>, <<" ", "t">>, <<"u", " ">>}

\* handle_text on {"type": "ping"}; a send on a closed connection raises
\* ConnectionClosed, which ends handle_client through its finally clause
ping(c) ==
    /\ Ready(c)
    /\ inbox[c] # <<>>
    /\ Head(inbox[c]).type = "ping"
    /\ inbox' = Upd(inbox, c, Tail(inbox[c]))
    /\ IF conn[c] = "open"
       THEN /\ outbox' = Upd(outbox, c, Append(outbox[c], Pong))
            /\ UNCHANGED <<hpc, running, cancelled>>
       ELSE /\ Finally(c)
            /\ UNCHANGED outbox
    /\ UNCHANGED <<conn, last_text, query, audioVars, tpc, recognizing, stream>>

\* a query choice that takes the transcript first
AskQuery_PrefersTranscript(text, last) ==
    LET t == Strip(OrEmpty(last))
    IN  IF t # <<>> THEN t ELSE Strip(OrEmpty(text))

\* (msg.get("text") or "").strip() or (session.last_text or "").strip()
AskQuery(text, last) ==
    LET t == Strip(OrEmpty(text))
    IN  IF t # <<>> THEN t ELSE Strip(OrEmpty(last))

\* handle_text on {"type": "ask_answer"}: with no query the notice is sent;
\* otherwise send_answer calls rag_answer, synchronously, on the loop
ask_answer(c) ==
    /\ Ready(c)
    /\ pc = "idle"
    /\ inbox[c] # <<>>
    /\ Head(inbox[c]).type = "ask_answer"
    /\ inbox' = Upd(inbox, c, Tail(inbox[c]))
    /\ LET q == AskQuery(Head(inbox[c]).text, last_text[c])
       IN  IF q = <<>>
           THEN /\ IF conn[c] = "open"
                   THEN /\ outbox' = Upd(outbox, c, Append(outbox[c], NoRecentTextMsg))
                        /\ UNCHANGED <<hpc, running, cancelled>>
                   ELSE /\ Finally(c)
                        /\ UNCHANGED outbox
                /\ UNCHANGED <<ragVars, query, backend_arg>>
           ELSE /\ Call(SendK, SendCtx)
                /\ query' = q
                /\ backend_arg' = "llama"
                /\ hpc' = Upd(hpc, c, "asking")
                /\ UNCHANGED <<outbox, running, cancelled>>
    /\ UNCHANGED <<conn, last_text, audioVars, tpc, recognizing, stream, prev>>

\* send_answer has returned: the frame of its rag_answer call is gone
end_answer ==
    /\ pc = "sent"
    /\ pc' = "idle"
    /\ k_retrieve' = 0
    /\ max_ctx_chars' = 0
    /\ ctxs' = <<>>
    /\ kept' = <<>>
    /\ prompt' = NoPrompt
    /\ gen' = NoGen
    /\ completion' = <<>>
    /\ result' = NoResult
    /\ outcome' = "none"
    /\ trace' = <<>>
    /\ query' = NoneVal
    /\ backend_arg' = NoBackend
    /\ UNCHANGED <<metadata, indexOrder, TOP_K, prev, netVars, hpc, running, last_text,
                   audioVars, taskVars>>

\* on_recognized with a non-blank text, and the push() it schedules on the loop
on_recognized(c, text) ==
    /\ LoopFree
    /\ recognizing[c] = "started"
    /\ Len(outbox[c]) < MaxOutbox
    /\ Strip(OrEmpty(text)) # <<>>
    /\ last_text' = Upd(last_text, c, Strip(OrEmpty(text)))
    /\ outbox' = Upd(outbox, c, IF conn[c] = "open"
                                THEN Append(outbox[c], Transcript(Strip(OrEmpty(text))))
                                ELSE outbox[c])
    /\ UNCHANGED <<inbox, conn, hpc, running, query, audioVars, taskVars>>

\* one connection from accept to cleanup, asking for answers on the way
AskInit ==
    /\ metadata = LoadMetadata(MaxMeta)
    /\ indexOrder = StoredOrder(MaxIndex)
    /\ TOP_K = DefaultTopK
    /\ Idle
    /\ CallerIdle

AskNext ==
    \/ \E m \in {EndMsg} \cup {AskMsg(t) : t \in AskTexts} :
           receive(1, m) /\ UNCHANGED <<ragVars, pairVars>>
    \/ disconnect(1) /\ UNCHANGED <<ragVars, pairVars>>
    \/ start_azure(1) /\ UNCHANGED <<ragVars, pairVars>>
    \/ run(1) /\ UNCHANGED <<ragVars, pairVars>>
    \/ \E text \in HeardTexts : on_recognized(1, text) /\ UNCHANGED <<ragVars, pairVars>>
    \/ end_session(1) /\ UNCHANGED <<ragVars, pairVars>>
    \/ ask_answer(1)
    \/ \E embedOk \in BOOLEAN : Retrieve(embedOk) /\ UNCHANGED callerVars
    \/ Build /\ UNCHANGED callerVars
    \/ Generate("connection_error", NoneVal) /\ UNCHANGED callerVars
    \/ Generate("ok", Body(0, MinCompletionLen, 0)) /\ UNCHANGED callerVars
    \/ HandleFailure /\ UNCHANGED callerVars
    \/ CheckCompletion /\ UNCHANGED callerVars
    \/ hpc[1] = "asking" /\ send_answer(1)
    \/ end_answer
    \/ cleanup(1) /\ UNCHANGED <<ragVars, pairVars>>
    \/ run_cancelled(1) /\ UNCHANGED <<ragVars, pairVars>>

AskSpec == AskInit /\ [][AskNext]_vars

\* two connections, both past start_azure with their tasks waiting for
\* audio, sending control messages to the one server process
ServerInit ==
    /\ metadata = LoadMetadata(MaxMeta)
    /\ indexOrder = StoredOrder(MaxIndex)
    /\ TOP_K = DefaultTopK
    /\ Idle
    /\ backend_arg = NoBackend
    /\ prev = NoPrev
    /\ outbox = [c \in Conns |-> <<Greeting, Transcript(ConnectedText)>>]
    /\ inbox = [c \in Conns |-> <<>>]
    /\ conn = [c \in Conns |-> "open"]
    /\ hpc = [c \in Conns |-> "serving"]
    /\ running = [c \in Conns |-> TRUE]
    /\ last_text = [c \in Conns |-> NoneVal]
    /\ query = NoneVal
    /\ pcm_q = [c \in Conns |-> <<>>]
    /\ received = [c \in Conns |-> 0]
    /\ written = [c \in Conns |-> 0]
    /\ tpc = [c \in Conns |-> "waiting"]
    /\ cancelled = [c \in Conns |-> FALSE]
    /\ recognizing = [c \in Conns |-> "started"]
    /\ stream = [c \in Conns |-> "open"]

ServerNext ==
    \/ \E c \in Conns, m \in {PingMsg, AskMsg(<<"q">>)} :
           receive(c, m) /\ UNCHANGED <<ragVars, pairVars>>
    \/ \E c \in Conns : ping(c) /\ UNCHANGED <<ragVars, pairVars>>
    \/ \E c \in Conns : ask_answer(c)
    \/ \E embedOk \in BOOLEAN : Retrieve(embedOk) /\ UNCHANGED callerVars
    \/ Build /\ UNCHANGED callerVars
    \/ Generate("connection_error", NoneVal) /\ UNCHANGED callerVars
    \/ Generate("ok", Body(0, MinCompletionLen, 0)) /\ UNCHANGED callerVars
    \/ HandleFailure /\ UNCHANGED callerVars
    \/ CheckCompletion /\ UNCHANGED callerVars
    \/ \E c \in Conns : hpc[c] = "asking" /\ send_answer(c)
    \/ end_answer

ServerSpec == ServerInit /\ [][ServerNext]_vars

\* ------------------------------------------------ vocabulary of the claims
\* the positions the index returned to the running call
Idxs == IndexSearch(k_retrieve)

\* the places of Idxs holding a position inside the metadata list
Good == {j \in 1..Len(Idxs) : Idxs[j] >= 0 /\ Idxs[j] < Len(metadata)}

Bad == (1..Len(Idxs)) \ Good

\* the rank of place j among the places of S
RankIn(S, j) == Cardinality({i \in S : i <= j})

\* the number of generation calls the running call has made
GenCount == Cardinality({j \in 1..Len(trace) : trace[j] = "generate"})

RECURSIVE SumLen(_)
\* the accumulated raw text length of a passage sequence
SumLen(items) ==
    IF items = <<>> THEN 0 ELSE Len(OrEmpty(Head(items).text)) + SumLen(Tail(items))

\* the extractive rendering of the first three of `items`
ExtractiveOf(items) ==
    LET parts == RenderParts(Take(items, SourcesMax))
    IN  IF parts # <<>> THEN Join(parts, <<"\n", "\n">>) ELSE NoInfoMsg

HasPrefix(s, pre) == Len(s) >= Len(pre) /\ SubSeq(s, 1, Len(pre)) = pre

Drop(s, n) == SubSeq(s, n + 1, Len(s))

ShortCompletion == gen.status = "returned" /\ Len(gen.text) < MinCompletionLen

\* ------------------------------------------------------------------ claims
\* C1: whatever the embedder, the index search and the backend do, rag_answer
\* raises nothing and ends in EMPTY_ANSWER, GENERATED or DEGRADED_ANSWER with
\* a result of the four fields answer, sources, backend, retrieved.
C1_AlwaysStructuredResult ==
    pc \in {"done", "raised"} =>
        /\ outcome \in {"EMPTY_ANSWER", "GENERATED", "DEGRADED_ANSWER"}
        /\ DOMAIN result = {"answer", "sources", "backend", "retrieved"}
        /\ result # NoResult

\* C2: when retrieval is empty the result is retrieved = 0, sources = [] and
\* the fixed insufficient-information message, and the backend is never called.
C2_EmptyRetrieval ==
    (pc \notin {"idle", "retrieve", "raised"} /\ Good = {}) =>
        /\ pc = "done"
        /\ result.retrieved = 0
        /\ result.sources = <<>>
        /\ result.answer = InsufficientMsg
        /\ GenCount = 0

C2_Witness ==
    /\ pc = "done"
    /\ Good = {}
    /\ Len(indexOrder) >= 1
    /\ k_retrieve > Len(indexOrder)
    /\ result.retrieved = 0

\* C3: when retrieval is non-empty and the backend returns a completion of at
\* least 20 characters, the answer is that completion verbatim, sources has
\* exactly min(3, retrieved) entries and retrieved counts the passages retrieved.
C3_GeneratedVerbatim ==
    (pc = "done" /\ gen.status = "returned" /\ Len(gen.text) >= MinCompletionLen) =>
        /\ Good # {}
        /\ result.answer = gen.text
        /\ Len(result.sources) = Min(SourcesMax, Cardinality(Good))
        /\ result.retrieved = Cardinality(Good)

C3_Witness ==
    /\ pc = "done"
    /\ gen.status = "returned"
    /\ Len(gen.text) >= MinCompletionLen
    /\ result.answer = gen.text
    /\ result.retrieved > SourcesMax
    /\ Len(result.sources) = SourcesMax

\* C4: on the generation path the passages numbered 1..N in the prompt are
\* exactly the N passages of sources, the i-th source being the one cited [i].
C4_CitationsMatchSources ==
    (pc = "done" /\ outcome \in {"GENERATED", "DEGRADED_ANSWER"}) =>
        prompt.refs = _format_sources(result.sources)[1]

\* C5: when the backend call fails, the answer is the apology prefix followed
\* by the extractive rendering of the same first three retrieved passages that
\* are returned as sources, and retrieved is the count retrieved.
C5_FailureFallbackOfSources ==
    (pc = "done" /\ gen.status = "raised") =>
        /\ result.answer = FailPrefix \o ExtractiveOf(result.sources)
        /\ result.sources = Take(ctxs, SourcesMax)
        /\ result.retrieved = Cardinality(Good)

\* C6 as stated: a completion shorter than 20 characters gives the very
\* result the failed backend call gives, apology prefix included.
C6_SameResultAsFailure ==
    (pc = "done" /\ ShortCompletion) => result = FailureResult

\* C6 as amended: a completion shorter than 20 characters is never the answer;
\* the result has the sources, retrieved, backend tag and extractive fallback
\* of the failed-call result, behind a fixed apology prefix of its own.
C6_DegenerateFallsBack ==
    (pc = "done" /\ ShortCompletion) =>
        /\ outcome = "DEGRADED_ANSWER"
        /\ result.answer # gen.text
        /\ result.sources = FailureResult.sources
        /\ result.retrieved = FailureResult.retrieved
        /\ result.backend = FailureResult.backend
        /\ HasPrefix(result.answer, ShortPrefix)
        /\ HasPrefix(FailureResult.answer, FailPrefix)
        /\ ShortPrefix # FailPrefix
        /\ Drop(result.answer, Len(ShortPrefix)) = Drop(FailureResult.answer, Len(FailPrefix))

C6_Witness ==
    /\ pc = "done"
    /\ ShortCompletion
    /\ gen.text = <<"x", "x">>
    /\ outcome = "DEGRADED_ANSWER"
    /\ Drop(result.answer, Len(ShortPrefix)) # NoInfoMsg

\* C7: every returned result has len(sources) <= min(3, retrieved), and
\* sources is a prefix of the retrieval result in retrieval order.
C7_SourcesBounded ==
    pc = "done" =>
        /\ Len(result.sources) <= Min(SourcesMax, result.retrieved)
        /\ Len(result.sources) <= Cardinality(Good)
        /\ \A j \in Good :
               RankIn(Good, j) <= Len(result.sources) =>
                   result.sources[RankIn(Good, j)] = metadata[Idxs[j] + 1]

C7_Witness ==
    /\ pc = "done"
    /\ outcome = "DEGRADED_ANSWER"
    /\ gen.status = "raised"
    /\ result.retrieved = SourcesMax + 1
    /\ Len(result.sources) = SourcesMax

\* C8: the prompt builder keeps a prefix of the passages, in order, whose
\* accumulated text length does not exceed max_ctx_chars, except that the
\* first passage is always kept; the kept list is empty only for empty input.
C8_BudgetedPrefix ==
    pc = "generate" =>
        /\ Len(kept) <= Len(ctxs)
        /\ kept = SubSeq(ctxs, 1, Len(kept))
        /\ (Len(kept) >= 2 => SumLen(kept) <= max_ctx_chars)
        /\ (kept = <<>> <=> ctxs = <<>>)
        /\ Len(prompt.refs) = Len(kept)

C8_Witness ==
    /\ pc = "generate"
    /\ Len(ctxs) >= 2
    /\ Len(kept) = 1
    /\ SumLen(kept) > max_ctx_chars

\* C9: search_laws returns the passages at the index-returned positions in
\* the index's order, dropping every position outside [0, len(metadata)): at
\* most top_k passages, shorter by exactly the number of dropped positions.
C9_SearchDropsOutOfRange ==
    pc \in {"build", "generate", "except", "check", "done"} =>
        /\ Len(ctxs) <= k_retrieve
        /\ Len(ctxs) = Len(Idxs) - Cardinality(Bad)
        /\ \A j \in Good : ctxs[RankIn(Good, j)] = metadata[Idxs[j] + 1]

C9_Witness ==
    /\ pc = "build"
    /\ \E j \in Bad : Idxs[j] < 0
    /\ \E j \in Bad : Idxs[j] >= Len(metadata)
    /\ \E i, j \in Good : i < j /\ Idxs[i] > Idxs[j]
    /\ Len(ctxs) = Len(Idxs) - 2

\* C10: the backend is called at most once per rag_answer, and a failed call
\* goes straight to DEGRADED_ANSWER with no further generation call.
C10_NoRetry ==
    /\ GenCount <= 1
    /\ gen.status = "raised" => pc \in {"except", "done"}
    /\ (pc = "done" /\ gen.status = "raised") =>
           /\ outcome = "DEGRADED_ANSWER"
           /\ trace = <<"retrieve", "build", "generate", "retrieve">>

C10_Witness ==
    /\ pc = "done"
    /\ gen.status = "raised"
    /\ outcome = "DEGRADED_ANSWER"
    /\ GenCount = 1

\* the place of a stage in the order retrieve, build, generate
StageRank(stage) ==
    CASE stage = "retrieve" -> 1 [] stage = "build" -> 2 [] OTHER -> 3

\* C11: within one query the stage calls are strictly sequential, retrieve
\* then build then generate, and no earlier stage is called once a later one
\* has started.
C11_StagesInOrder ==
    \A i, j \in 1..Len(trace) : i < j => StageRank(trace[i]) < StageRank(trace[j])

\* C16: no step of search_laws, get_best_match_answer, _build_prompt_ar,
\* _format_sources or rag_answer changes the number, order or content of the
\* stored passages or the index.
C16_StoreReadOnly == [][metadata' = metadata /\ indexOrder' = indexOrder]_vars

C16_Witness ==
    /\ pc = "done"
    /\ outcome = "DEGRADED_ANSWER"
    /\ Len(kept) >= 2
    /\ \E i \in 1..Len(kept) : Strip(OrEmpty(kept[i].text)) # OrEmpty(kept[i].text)

\* the passages get_best_match_answer retrieves
FallbackCtx == search_laws(TOP_K)

HasText(item) == Strip(OrEmpty(item.text)) # <<>>

\* "{article_title} ({law_title}):\n{text}", or "({law_title}):\n{text}"
Block(item) ==
    (IF Truthy(item.article_title) THEN item.article_title \o <<" ">> ELSE <<>>)
    \o <<"(">>
    \o (IF item.law_title = NoneVal THEN UntitledLaw ELSE item.law_title)
    \o <<")", ":", "\n">> \o Strip(OrEmpty(item.text))

\* the extractive text that follows the apology prefix of a degraded answer
FallbackText ==
    Drop(result.answer,
         IF gen.status = "raised" THEN Len(FailPrefix) ELSE Len(ShortPrefix))

\* C17: the extractive fallback renders exactly those of the top 3 retrieved
\* passages that have non-empty stripped text, in retrieval order, each as
\* its "(law):\ntext" block, joined by a blank line; a passage beyond the
\* third is never rendered, and with no text among the first three the
\* fallback is the fixed 'no information' string.
C17_ExtractiveFallback ==
    (pc = "done" /\ outcome = "DEGRADED_ANSWER") =>
        LET withText == SelectSeq(Take(FallbackCtx, SourcesMax), HasText)
        IN  FallbackText =
                IF withText = <<>> THEN NoInfoMsg
                ELSE Join([i \in 1..Len(withText) |-> Block(withText[i])],
                          <<"\n", "\n">>)

C17_Witness ==
    /\ pc = "done"
    /\ outcome = "DEGRADED_ANSWER"
    /\ Len(FallbackCtx) > SourcesMax
    /\ ~HasText(FallbackCtx[1])
    /\ HasText(FallbackCtx[2])
    /\ HasText(FallbackCtx[SourcesMax + 1])
    /\ FallbackText = Block(FallbackCtx[2])

\* the second call has ended as the first did: same arguments, and the
\* embedder, the index and the backend answered it as they answered the first
SecondLikeFirst ==
    /\ prev.called
    /\ pc \in {"done", "raised"}
    /\ pc = prev.ended
    /\ gen = prev.gen
    /\ k_retrieve = prev.k
    /\ max_ctx_chars = prev.m

\* C14: two calls of rag_answer with the same query, k_retrieve and
\* max_ctx_chars on an unchanged store, with a deterministic embedder, index
\* and backend, return identical results on each terminal path.
C14_Idempotent ==
    (SecondLikeFirst /\ backend_arg = prev.backend) =>
        /\ result = prev.result
        /\ outcome = prev.outcome

C14_Witness ==
    /\ SecondLikeFirst
    /\ backend_arg = prev.backend
    /\ outcome = "DEGRADED_ANSWER"
    /\ gen.status = "raised"
    /\ Len(result.sources) >= 2
    /\ result = prev.result

\* C15: two calls that differ only in the backend argument return identical
\* results, and every result, the backend-unreachable one included, carries
\* the tag "llama".
C15_BackendArgumentDead ==
    /\ (SecondLikeFirst /\ backend_arg # prev.backend) => result = prev.result
    /\ pc = "done" => result.backend = "llama"

C15_Witness ==
    /\ SecondLikeFirst
    /\ backend_arg = "hf"
    /\ prev.backend = NoBackend
    /\ gen.status = "raised"
    /\ result.backend = "llama"
    /\ result = prev.result

RECURSIVE Contains(_, _)
\* token t occurs in s
Contains(s, t) == s # <<>> /\ (Head(s) = t \/ Contains(Tail(s), t))

RECURSIVE CitationMarks(_)
\* the digits that follow a "[" in s, in order
CitationMarks(s) ==
    IF Len(s) < 2 THEN <<>>
    ELSE (IF Head(s) = "[" THEN <<s[2]>> ELSE <<>>) \o CitationMarks(Tail(s))

\* C13: send_answer sends exactly one message, never empty and never holding
\* the exception's text: the labelled answer with a references tail numbered
\* from the sources, the fixed 'no answer' message for an empty answer, the
\* fixed apology when rag_answer raised.
C13_OneWellFormedMessage ==
    (pc = "sent" /\ conn[1] = "open") =>
        /\ Len(outbox[1]) = 1
        /\ outbox[1][1] # <<>>
        /\ ~Contains(outbox[1][1], ExceptionText[1])
        /\ outcome = "RAISED" => outbox[1][1] = ApologyMsg
        /\ outcome # "RAISED" =>
               LET answer  == Strip(OrEmpty(result.answer))
                   sources == result.sources
                   rest    == Drop(outbox[1][1], Len(AnswerLabel) + Len(answer))
               IN  IF answer = <<>> THEN outbox[1][1] = NoAnswerMsg
                   ELSE /\ HasPrefix(outbox[1][1], AnswerLabel \o answer)
                        /\ CitationMarks(rest) = [i \in 1..Len(sources) |-> Digit(i)]
                        /\ sources = <<>> => rest = <<>>
                        /\ sources # <<>> => HasPrefix(rest, RefsHeader)

C13_Witness ==
    /\ pc = "sent"
    /\ conn[1] = "open"
    /\ outcome # "RAISED"
    /\ result.answer = <<" ", "x", " ">>
    /\ Len(result.sources) = SourcesMax
    /\ HasPrefix(outbox[1][1], AnswerLabel \o <<"x">> \o RefsHeader)

\* C18: a session's PCM queue never holds more than 100 chunks; a chunk
\* handed to handle_binary lands at the tail, and when the queue was full it
\* is exactly the oldest chunk that went; the feeder writes the chunk at the
\* head, so the chunks written appear in the order they were received.
C18_QueueBoundedDropOldest ==
    /\ [](\A c \in Conns : Len(pcm_q[c]) <= QueueMax)
    /\ [][\A c \in Conns :
            /\ received'[c] # received[c] =>
                   /\ Len(pcm_q[c]) < QueueMax =>
                          pcm_q'[c] = Append(pcm_q[c], received'[c])
                   /\ Len(pcm_q[c]) = QueueMax =>
                          pcm_q'[c] = Append(Tail(pcm_q[c]), received'[c])
            /\ written'[c] # written[c] =>
                   /\ written'[c] > written[c]
                   /\ written'[c] = Head(pcm_q[c])
                   /\ pcm_q'[c] = Tail(pcm_q[c])]_vars

\* the queue is full of the newest 100 chunks: chunk 1 was dropped unwritten
C18_Witness ==
    /\ received[1] > QueueMax
    /\ written[1] = 0
    /\ tpc[1] = "waiting"
    /\ Len(pcm_q[1]) = QueueMax
    /\ Head(pcm_q[1]) = received[1] - QueueMax + 1
    /\ pcm_q[1][QueueMax] = received[1]

\* C20: once a connection has ended the session is eventually cleaned up:
\* running is False, the task has finished, recognition is stopped and the
\* push stream is closed; and nothing is written to a closed push stream.
C20_EventuallyCleanedUp ==
    /\ \A c \in Conns :
           (conn[c] = "closed") ~>
               (/\ running[c] = FALSE
                /\ tpc[c] = "done"
                /\ recognizing[c] = "stopped"
                /\ stream[c] = "closed")
    /\ [][\A c \in Conns : stream[c] = "closed" => written'[c] = written[c]]_vars

\* the feeder was waiting on an empty queue when the cancel reached it
C20_Witness ==
    /\ conn[1] = "closed"
    /\ hpc[1] = "ended"
    /\ running[1] = FALSE
    /\ cancelled[1]
    /\ pcm_q[1] = <<>>
    /\ written[1] > 0
    /\ tpc[1] = "done"
    /\ recognizing[1] = "stopped"
    /\ stream[1] = "closed"

\* C12: concurrent queries are independent: while the handler of one
\* connection is blocked in the generation call of its query, a frame that
\* another connection's handler has waiting can be handled.
C12_OthersServedWhileBlocked ==
    \A c, d \in Conns :
        (/\ d # c
         /\ hpc[c] = "asking"
         /\ pc = "generate"
         /\ hpc[d] = "serving"
         /\ inbox[d] # <<>>)
            => ENABLED (ping(d) \/ ask_answer(d))

\* C19: handling an ask_answer message takes the client's text when it is
\* non-blank after stripping, else the stripped last_text; with neither, the
\* 'no recent text' notice is sent and rag_answer is not called; last_text
\* stays as it was.
C19_QueryChoice ==
    [][\A c \in Conns :
          (/\ inbox[c] # <<>>
           /\ Head(inbox[c]).type = "ask_answer"
           /\ inbox'[c] = Tail(inbox[c]))
              => LET text  == Strip(OrEmpty(Head(inbox[c]).text))
                     heard == Strip(OrEmpty(last_text[c]))
                 IN  /\ text # <<>> => (pc' = "retrieve" /\ query' = text)
                     /\ (text = <<>> /\ heard # <<>>) =>
                            (pc' = "retrieve" /\ query' = heard)
                     /\ (text = <<>> /\ heard = <<>>) =>
                            /\ pc' = "idle"
                            /\ query' = NoneVal
                            /\ conn[c] = "open" =>
                                   outbox'[c] = Append(outbox[c], NoRecentTextMsg)
                     /\ last_text' = last_text]_vars

\* a query taken from the transcript: no client text strips to "t"
C19_Witness ==
    /\ hpc[1] = "asking"
    /\ pc = "retrieve"
    /\ last_text[1] = <<"t">>
    /\ query = <<"t">>

====
